---- MODULE Spec2Model ----
(***************************************************************************)
(* The API server of src/index.js (registrations, blog posts, events, the  *)
(* mailing-list proxy) and the second entry point src/unnamed/part_000     *)
(* (paginated and searched blog listings behind its own route table).      *)
(*                                                                         *)
(* A request handler is an async function: it runs from one await to the   *)
(* next without interruption, and other requests run in between.  Each     *)
(* action below is one such uninterrupted stretch of one handler.          *)
(***************************************************************************)
EXTENDS Integers, Sequences, FiniteSets, TLC

\* ---------------------------------------------------------------- bounds
MaxNow == 1        \* the clock (Date.now(), in ms) runs over 0..MaxNow
MaxDocs == 3       \* Post and Event ids handed out: 1..MaxDocs
MaxReq == 2        \* requests in progress at the same time
MaxOps == 2        \* Post and Event requests accepted in one run
MaxUsers == 2      \* Registrations stored
MaxPage == 2       \* ?page= runs over 1..MaxPage
MaxLimit == 2      \* ?limit= runs over 0..MaxLimit

Slots == 1..MaxReq
Ids == 1..MaxDocs

\* Text a client may send.  A title is a sequence of letters; the empty one
\* stands for an omitted or empty field (both are falsy for JavaScript's ||).
NoText == <<>>
Titles == {NoText, <<"a">>, <<"A", "b">>}
Contents == {NoText, <<"c">>}
\* path.extname(file.originalname) of an upload.
Exts == {".png", ".jpg"}

VARIABLES
  now,      \* Date.now() / new Date()
  files,    \* the paths that exist in the uploads directory
  blogs,    \* the Blog collection: id -> document
  events,   \* the Event collection: id -> document
  nextId,   \* ids handed out so far (ObjectIds are never reused)
  ops,      \* Post and Event requests accepted so far
  reqs,     \* Post and Event requests in progress: slot -> request
  users,    \* the Register collection, in insertion order
  regResp,  \* the last response of a /api/register request
  subs,     \* /api/subscribe requests in progress: slot -> request
  listing   \* the last response of a GET listing request

vars == <<now, files, blogs, events, nextId, ops, reqs, users, regResp, subs, listing>>

\* ------------------------------------------------------------ media store
NoImage == <<>>

\* multer's diskStorage: uploads/<Date.now()><extname>.
Filename(t, ext) == <<t, ext>>

\* req.file ? req.file.path : ''
Upload(ext) == IF ext = "" THEN NoImage ELSE Filename(now, ext)

\* What multer leaves on disk once the upload middleware has run.
Stored(ext) == IF ext = "" THEN files ELSE files \cup {Filename(now, ext)}

\* A handler that forgets the file: nothing is unlinked.
UnlinkSkipped(fs, image) == fs

\* if (doc.image && fs.existsSync(doc.image)) fs.unlinkSync(doc.image)
Unlink(fs, image) == IF image # NoImage /\ image \in fs THEN fs \ {image} ELSE fs

\* ------------------------------------------------------------- documents
NoBlog == [live |-> FALSE, title |-> NoText, content |-> NoText, image |-> NoImage]
\* An Event's date is a time on the clock's scale, or missing (the field was
\* not sent); a date that does not parse is refused when the Event is saved.
NoDate == -1
BadDate == -2
NoEvent == [live |-> FALSE, date |-> NoDate, image |-> NoImage]

\* A request slot.  kind: which handler; pc: the await it is suspended at;
\* doc: the document findById returned; upd: that document as the handler has
\* changed it in memory; before: the uploads directory and the Post as they
\* were when a PUT arrived (recorded for the properties, never read by a
\* handler).
Idle ==
  [kind |-> "idle", pc |-> "", id |-> 0, title |-> NoText, content |-> NoText,
   date |-> NoDate, file |-> NoImage, hasFile |-> FALSE, doc |-> NoBlog,
   upd |-> NoBlog, status |-> 0, before |-> [files |-> {}, blog |-> NoBlog]]

Quiescent == \A s \in Slots : reqs[s].kind = "idle"

\* A request arrives and takes the first free slot.
Arrive(s, r) ==
  /\ reqs[s].kind = "idle"
  /\ \A t \in Slots : t < s => reqs[t].kind # "idle"
  /\ ops < MaxOps
  /\ ops' = ops + 1
  /\ reqs' = [reqs EXCEPT ![s] = r]

Others == <<users, regResp, subs, listing>>

\* Creations in progress: each will take a fresh id.
Saving == Cardinality({s \in Slots : reqs[s].pc = "save" /\ reqs[s].kind \in {"postBlog", "postEvent"}})

\* ------------------------------------------------------- POST /api/blogs
\* upload.single('image') has stored the file; the handler builds the document
\* and suspends in newBlog.save().
PostBlogs(s, title, content, ext) ==
  /\ nextId + Saving < MaxDocs
  /\ files' = Stored(ext)
  /\ Arrive(s, [Idle EXCEPT !.kind = "postBlog", !.pc = "save",
                            !.title = title, !.content = content,
                            !.file = Upload(ext), !.hasFile = (ext # "")])
  /\ UNCHANGED <<now, blogs, events, nextId, Others>>

\* newBlog.save() inserts the document under a fresh id; 201.
PostBlogsSave(s) ==
  /\ reqs[s].kind = "postBlog" /\ reqs[s].pc = "save"
  /\ nextId' = nextId + 1
  /\ blogs' = [blogs EXCEPT ![nextId + 1] =
                 [live |-> TRUE, title |-> reqs[s].title,
                  content |-> reqs[s].content, image |-> reqs[s].file]]
  /\ reqs' = [reqs EXCEPT ![s].pc = "resp", ![s].status = 201, ![s].id = nextId + 1]
  /\ UNCHANGED <<now, files, events, ops, Others>>

\* ------------------------------------------------- DELETE /api/blogs/:id
\* Blog.findById(req.params.id); 404 when there is none.
DeleteBlog(s, id) ==
  /\ Arrive(s, IF blogs[id].live
               THEN [Idle EXCEPT !.kind = "deleteBlog", !.pc = "sync", !.id = id,
                                 !.doc = blogs[id]]
               ELSE [Idle EXCEPT !.kind = "deleteBlog", !.pc = "resp", !.id = id,
                                 !.status = 404])
  /\ UNCHANGED <<now, files, blogs, events, nextId, Others>>

\* The stretch after findById: unlink the image if it exists, then suspend in
\* findByIdAndDelete.
DeleteBlogSync(s) ==
  /\ reqs[s].kind = "deleteBlog" /\ reqs[s].pc = "sync"
  /\ files' = Unlink(files, reqs[s].doc.image)
  /\ reqs' = [reqs EXCEPT ![s].pc = "delete"]
  /\ UNCHANGED <<now, blogs, events, nextId, ops, Others>>

\* Blog.findByIdAndDelete removes the document (if it is still there); 204.
DeleteBlogWrite(s) ==
  /\ reqs[s].kind = "deleteBlog" /\ reqs[s].pc = "delete"
  /\ blogs' = [blogs EXCEPT ![reqs[s].id] = NoBlog]
  /\ reqs' = [reqs EXCEPT ![s].pc = "resp", ![s].status = 204]
  /\ UNCHANGED <<now, files, events, nextId, ops, Others>>

\* ---------------------------------------------------- PUT /api/blogs/:id
\* upload.single('image') has stored the file; the handler suspends in
\* Blog.findById.
PutBlog(s, id, title, content, ext) ==
  /\ files' = Stored(ext)
  /\ Arrive(s, [Idle EXCEPT !.kind = "putBlog", !.pc = "find", !.id = id,
                            !.title = title, !.content = content,
                            !.file = Upload(ext), !.hasFile = (ext # ""),
                            !.before = [files |-> files, blog |-> blogs[id]]])
  /\ UNCHANGED <<now, blogs, events, nextId, Others>>

\* Blog.findById resolves; 404 when there is no such Post.
PutBlogFind(s) ==
  /\ reqs[s].kind = "putBlog" /\ reqs[s].pc = "find"
  /\ reqs' = [reqs EXCEPT ![s] =
                IF blogs[reqs[s].id].live
                THEN [@ EXCEPT !.pc = "sync", !.doc = blogs[reqs[s].id]]
                ELSE [@ EXCEPT !.pc = "resp", !.status = 404]]
  /\ UNCHANGED <<now, files, blogs, events, nextId, ops, Others>>

\* Replacing instead of merging: an omitted field blanks the stored one.
OrElseGiven(given, old) == given

\* title || blog.title
OrElse(given, old) == IF given # NoText THEN given ELSE old

\* The document as the handler leaves it in memory before blog.save().
Merged(r) ==
  [live |-> TRUE,
   title |-> OrElse(r.title, r.doc.title),
   content |-> OrElse(r.content, r.doc.content),
   image |-> IF r.hasFile THEN r.file ELSE r.doc.image]

\* The files after the handler's "replace the old image" block.
Replaced(r) == IF r.hasFile THEN Unlink(files, r.doc.image) ELSE files

\* The stretch after findById: replace the image, merge the text fields,
\* suspend in blog.save().
PutBlogSync(s) ==
  /\ reqs[s].kind = "putBlog" /\ reqs[s].pc = "sync"
  /\ files' = Replaced(reqs[s])
  /\ reqs' = [reqs EXCEPT ![s].pc = "save", ![s].upd = Merged(reqs[s])]
  /\ UNCHANGED <<now, blogs, events, nextId, ops, Others>>

\* blog.save() of a loaded document writes the paths the handler changed, and
\* only those; it fails (caught: 500) when the document is gone.
Saved(cur, r) ==
  [live |-> TRUE,
   title |-> IF r.upd.title # r.doc.title THEN r.upd.title ELSE cur.title,
   content |-> IF r.upd.content # r.doc.content THEN r.upd.content ELSE cur.content,
   image |-> IF r.upd.image # r.doc.image THEN r.upd.image ELSE cur.image]

PutBlogSave(s) ==
  /\ reqs[s].kind = "putBlog" /\ reqs[s].pc = "save"
  /\ IF blogs[reqs[s].id].live
     THEN /\ blogs' = [blogs EXCEPT ![reqs[s].id] = Saved(@, reqs[s])]
          /\ reqs' = [reqs EXCEPT ![s].pc = "resp", ![s].status = 200]
     ELSE /\ blogs' = blogs
          /\ reqs' = [reqs EXCEPT ![s].pc = "resp", ![s].status = 500]
  /\ UNCHANGED <<now, files, events, nextId, ops, Others>>

\* ------------------------------------------------------ POST /api/events
Dates == 0..(MaxNow + 1)
\* The dates a client posts with an event: two different readable ones.
PostedDates == {0, 1}

PostEvents(s, date, ext) ==
  /\ nextId + Saving < MaxDocs
  /\ files' = Stored(ext)
  /\ Arrive(s, [Idle EXCEPT !.kind = "postEvent", !.pc = "save", !.date = date,
                            !.file = Upload(ext), !.hasFile = (ext # "")])
  /\ UNCHANGED <<now, blogs, events, nextId, Others>>

\* newEvent.save(): 201, or 400 when the date cannot be cast (the file stays).
PostEventsSave(s) ==
  /\ reqs[s].kind = "postEvent" /\ reqs[s].pc = "save"
  /\ IF reqs[s].date = BadDate
     THEN /\ reqs' = [reqs EXCEPT ![s].pc = "resp", ![s].status = 400]
          /\ UNCHANGED <<nextId, events>>
     ELSE /\ nextId' = nextId + 1
          /\ events' = [events EXCEPT ![nextId + 1] =
                          [live |-> TRUE, date |-> reqs[s].date, image |-> reqs[s].file]]
          /\ reqs' = [reqs EXCEPT ![s].pc = "resp", ![s].status = 201,
                                  ![s].id = nextId + 1]
  /\ UNCHANGED <<now, files, blogs, ops, Others>>

\* ------------------------------------------------ DELETE /api/events/:id
DeleteEvent(s, id) ==
  /\ Arrive(s, IF events[id].live
               THEN [Idle EXCEPT !.kind = "deleteEvent", !.pc = "sync", !.id = id,
                                 !.doc = [NoBlog EXCEPT !.live = TRUE,
                                                        !.image = events[id].image]]
               ELSE [Idle EXCEPT !.kind = "deleteEvent", !.pc = "resp", !.id = id,
                                 !.status = 404])
  /\ UNCHANGED <<now, files, blogs, events, nextId, Others>>

DeleteEventSync(s) ==
  /\ reqs[s].kind = "deleteEvent" /\ reqs[s].pc = "sync"
  /\ files' = Unlink(files, reqs[s].doc.image)
  /\ reqs' = [reqs EXCEPT ![s].pc = "delete"]
  /\ UNCHANGED <<now, blogs, events, nextId, ops, Others>>

DeleteEventWrite(s) ==
  /\ reqs[s].kind = "deleteEvent" /\ reqs[s].pc = "delete"
  /\ events' = [events EXCEPT ![reqs[s].id] = NoEvent]
  /\ reqs' = [reqs EXCEPT ![s].pc = "resp", ![s].status = 204]
  /\ UNCHANGED <<now, files, blogs, nextId, ops, Others>>

\* ------------------------------------------------------------- responses
\* res.status(..).json(..) / .send(): the request is over.
Respond(s) ==
  /\ reqs[s].pc = "resp"
  /\ reqs' = [reqs EXCEPT ![s] = Idle]
  /\ UNCHANGED <<now, files, blogs, events, nextId, ops, Others>>

\* A millisecond passes.
Tick ==
  /\ now < MaxNow
  /\ now' = now + 1
  /\ UNCHANGED <<files, blogs, events, nextId, ops, reqs, Others>>

\* ---------------------------------------------------------- registrations
\* What POST /api/register may carry.  name stands for each of the text fields
\* (name, location, church, phone), which the handler treats alike; check is
\* the body's own "check" member: absent, a boolean, or something that is not
\* one.
Names == {"n1", "n2"}
Emails == {"e1", "e2"}
Checks == {"absent", "true", "false", "junk"}

NoUser == [name |-> "", email |-> "", check |-> FALSE]

\* A response: already is the check-in flag as the PATCH found it (recorded
\* for the properties, not sent).
NoRegResp ==
  [op |-> "", status |-> 0, id |-> 0, user |-> NoUser, already |-> FALSE, list |-> <<>>]

\* new User(req.body).save(): 201, or 400 when the body does not cast.
PostRegister(name, email, check) ==
  /\ Len(users) < MaxUsers
  /\ IF check = "junk"
     THEN /\ users' = users
          /\ regResp' = [NoRegResp EXCEPT !.op = "post", !.status = 400]
     ELSE /\ users' = Append(users, [name |-> name, email |-> email,
                                     check |-> (check = "true")])
          /\ regResp' = [NoRegResp EXCEPT !.op = "post", !.status = 201]
  /\ UNCHANGED <<now, files, blogs, events, nextId, ops, reqs, subs, listing>>

\* User.find(): 200 with every Registration.
GetRegister ==
  /\ regResp' = [NoRegResp EXCEPT !.op = "get", !.status = 200, !.list = users]
  /\ UNCHANGED <<now, files, blogs, events, nextId, ops, reqs, users, subs, listing>>

\* A check-in that flips the flag instead of setting it.
Toggled(u) == [u EXCEPT !.check = ~u.check]

\* The update document of findByIdAndUpdate: { check: true }.
CheckedIn(u) == [u EXCEPT !.check = TRUE]

\* PATCH /api/register/:id.  id 0 is a string that is no ObjectId (the cast
\* fails: 400); an id beyond the collection matches nothing (404).
PatchRegister(id) ==
  /\ IF id = 0
     THEN /\ users' = users
          /\ regResp' = [NoRegResp EXCEPT !.op = "patch", !.status = 400]
     ELSE IF id > Len(users)
     THEN /\ users' = users
          /\ regResp' = [NoRegResp EXCEPT !.op = "patch", !.status = 404, !.id = id]
     ELSE /\ users' = [users EXCEPT ![id] = CheckedIn(@)]
          /\ regResp' = [NoRegResp EXCEPT !.op = "patch", !.status = 200, !.id = id,
                                          !.user = CheckedIn(users[id]),
                                          !.already = users[id].check]
  /\ UNCHANGED <<now, files, blogs, events, nextId, ops, reqs, subs, listing>>

NextRegister ==
  \/ \E n \in Names, e \in Emails, c \in Checks : PostRegister(n, e, c)
  \/ GetRegister
  \/ \E i \in 0..MaxUsers : PatchRegister(i)

\* ------------------------------------------------------ POST /api/subscribe
\* What the mailing-list provider does with a request: an HTTP status, or no
\* answer at all (the connection fails).
NoAnswer == 0
ProviderOutcomes == {200, 204, 400, 404, 500, 503, NoAnswer}
SubEmails == {"", "x@y", "z@y"}

\* calls: the requests this request has sent to the provider.
SubIdle == [pc |-> "idle", email |-> "", calls |-> 0, outcome |-> -1, status |-> 0]

\* No presence check at all.
EmailNeverMissing(email) == FALSE

\* !email
EmailMissing(email) == email = ""

\* The handler up to its first await: 400 without an email, else one
\* axios.post to the provider.
Subscribe(s, email) ==
  /\ subs[s].pc = "idle"
  /\ \A t \in Slots : t < s => subs[t].pc # "idle"
  /\ subs' = [subs EXCEPT ![s] =
                IF EmailMissing(email)
                THEN [SubIdle EXCEPT !.pc = "resp", !.email = email, !.status = 400]
                ELSE [SubIdle EXCEPT !.pc = "await", !.email = email, !.calls = 1]]
  /\ UNCHANGED <<now, files, blogs, events, nextId, ops, reqs, users, regResp, listing>>

\* axios resolves the promise for a status its validateStatus accepts (the
\* default: 2xx) and rejects it for every other status and for no answer.
AxiosResolves(outcome) == outcome >= 200 /\ outcome < 300

\* The handler after the await: the try block's branches on response.status,
\* or the catch block.
LocalStatus(outcome) ==
  IF AxiosResolves(outcome)
  THEN IF outcome >= 200 /\ outcome < 300 THEN 200 ELSE outcome
  ELSE 500

ProviderAnswers(s, outcome) ==
  /\ subs[s].pc = "await"
  /\ subs' = [subs EXCEPT ![s].pc = "resp", ![s].outcome = outcome,
                          ![s].status = LocalStatus(outcome)]
  /\ UNCHANGED <<now, files, blogs, events, nextId, ops, reqs, users, regResp, listing>>

SubscribeRespond(s) ==
  /\ subs[s].pc = "resp"
  /\ subs' = [subs EXCEPT ![s] = SubIdle]
  /\ UNCHANGED <<now, files, blogs, events, nextId, ops, reqs, users, regResp, listing>>

NextSubscribe ==
  \/ \E s \in Slots, e \in SubEmails : Subscribe(s, e)
  \/ \E s \in Slots, o \in ProviderOutcomes : ProviderAnswers(s, o)
  \/ \E s \in Slots : SubscribeRespond(s)

\* ---------------------------------------------------------------- listings
\* A GET listing: op is the endpoint, pc = "find" while the query is running,
\* items the ids of the documents returned, in order; kind is "json" for a
\* handler's list and "page" for what the catch-all route sends.
NoListing ==
  [op |-> "", pc |-> "", cutoff |-> 0, query |-> NoText, page |-> 0, limit |-> 0,
   status |-> 0, kind |-> "", items |-> <<>>, total |-> 0]

\* The elements of a set of ids as a sequence, in insertion (id) order.
RECURSIVE Ascending(_)
Ascending(S) ==
  IF S = {} THEN <<>>
  ELSE LET m == CHOOSE x \in S : \A y \in S : x <= y
       IN  <<m>> \o Ascending(S \ {m})

\* $gt in place of $gte: an Event dated exactly now is left out.
MatchesAfter(date, cutoff) == date # NoDate /\ date > cutoff

\* { date: { $gte: cutoff } }: a missing date matches nothing.
Matches(date, cutoff) == date # NoDate /\ date >= cutoff

\* .sort({ date: 1 }): ascending, documents with equal dates in natural order.
RECURSIVE Insert(_, _)
Insert(sorted, i) ==
  IF sorted = <<>> THEN <<i>>
  ELSE IF events[Head(sorted)].date <= events[i].date
       THEN <<Head(sorted)>> \o Insert(Tail(sorted), i)
       ELSE <<i>> \o sorted

RECURSIVE SortByDate(_)
SortByDate(ids) ==
  IF ids = <<>> THEN <<>>
  ELSE Insert(SortByDate(SubSeq(ids, 1, Len(ids) - 1)), ids[Len(ids)])

FindEvents(cutoff) ==
  SortByDate(Ascending({i \in Ids : events[i].live /\ Matches(events[i].date, cutoff)}))

\* GET /api/events: new Date() is taken when the handler runs, the query is
\* answered later.
GetEvents ==
  /\ listing.pc # "find"
  /\ listing' = [NoListing EXCEPT !.op = "events", !.pc = "find", !.cutoff = now]
  /\ UNCHANGED <<now, files, blogs, events, nextId, ops, reqs, users, regResp, subs>>

GetEventsFind ==
  /\ listing.op = "events" /\ listing.pc = "find"
  /\ listing' = [listing EXCEPT !.pc = "done", !.status = 200, !.kind = "json",
                                !.items = FindEvents(listing.cutoff)]
  /\ UNCHANGED <<now, files, blogs, events, nextId, ops, reqs, users, regResp, subs>>

\* GET /api/events reads the collection and changes nothing: it is checked
\* over every Event collection that POST /api/events and DELETE
\* /api/events/:id can leave behind (images aside), with the clock anywhere.
StoredEvents ==
  {NoEvent} \cup {[live |-> TRUE, date |-> d, image |-> NoImage] : d \in Dates \cup {NoDate}}

InitEvents ==
  /\ now \in 0..MaxNow
  /\ files = {}
  /\ blogs = [i \in Ids |-> NoBlog]
  /\ events \in [Ids -> StoredEvents]
  /\ nextId = MaxDocs
  /\ ops = 0
  /\ reqs = [s \in Slots |-> Idle]
  /\ users = <<>>
  /\ regResp = NoRegResp
  /\ subs = [s \in Slots |-> SubIdle]
  /\ listing = NoListing

NextEvents ==
  \/ Tick
  \/ GetEvents
  \/ GetEventsFind

SpecEvents == InitEvents /\ [][NextEvents]_vars

\* ------------------------------------------- blog listings (part_000)
\* The routes of the second server in the order it registers them.  A path is
\* its segments; ":id" stands for a route parameter and "*" for any path.
\* express.static comes first and passes on every path that is no file of the
\* build, as the /api paths are.
Routes ==
  << [method |-> "GET", path |-> <<"*">>, handler |-> "index"],
     [method |-> "POST", path |-> <<"api", "register">>, handler |-> "postRegister"],
     [method |-> "GET", path |-> <<"api", "register">>, handler |-> "getRegister"],
     [method |-> "PATCH", path |-> <<"api", "register", ":id">>, handler |-> "patchRegister"],
     [method |-> "POST", path |-> <<"api", "subscribe">>, handler |-> "subscribe"],
     [method |-> "POST", path |-> <<"api", "blogs">>, handler |-> "postBlogs"],
     [method |-> "GET", path |-> <<"api", "blogs">>, handler |-> "getBlogs"],
     [method |-> "GET", path |-> <<"api", "blogs", "main">>, handler |-> "blogsMain"],
     [method |-> "GET", path |-> <<"api", "blogs", "search">>, handler |-> "blogsSearch"],
     [method |-> "GET", path |-> <<"api", "blogs", ":id">>, handler |-> "getBlog"],
     [method |-> "DELETE", path |-> <<"api", "blogs", ":id">>, handler |-> "deleteBlog"],
     [method |-> "PUT", path |-> <<"api", "blogs", ":id">>, handler |-> "putBlog"],
     [method |-> "POST", path |-> <<"api", "subscribe">>, handler |-> "subscribe"] >>

RouteMatches(route, method, path) ==
  /\ route.method = method
  /\ \/ route.path = <<"*">>
     \/ /\ Len(route.path) = Len(path)
        /\ \A k \in DOMAIN path : route.path[k] = path[k] \/ route.path[k] = ":id"

\* Express runs the first route registered that matches, and no other unless
\* that one calls next(), which no handler here does.
Dispatch(method, path) ==
  LET hits == {k \in DOMAIN Routes : RouteMatches(Routes[k], method, path)}
  IN  IF hits = {} THEN "none"
      ELSE Routes[CHOOSE k \in hits : \A l \in hits : k <= l].handler

\* A query parameter that was not sent.
Unset == -1
DefaultPage == 1
DefaultLimit == 28

PageParam(page) == IF page = Unset THEN DefaultPage ELSE page
LimitParam(limit) == IF limit = Unset THEN DefaultLimit ELSE limit

\* cursor.skip(k) and cursor.limit(n); a limit of 0 is no limit.
Skip(seq, k) == SubSeq(seq, k + 1, Len(seq))
Limit(seq, n) == IF n = 0 \/ n >= Len(seq) THEN seq ELSE SubSeq(seq, 1, n)

\* Blog.find(): the Posts in natural (insertion) order.
FindBlogs == Ascending({i \in Ids : blogs[i].live})

\* { $regex: searchQuery, $options: 'i' } for a query of plain letters: the
\* title contains the query, case ignored.
Lower(c) == CASE c = "A" -> "a" [] c = "B" -> "b" [] OTHER -> c
Fold(text) == [k \in DOMAIN text |-> Lower(text[k])]
TitleMatches(title, query) ==
  \E k \in 0..(Len(title) - Len(query)) :
    SubSeq(Fold(title), k + 1, k + Len(query)) = Fold(query)

SearchBlogs(query) == Ascending({i \in Ids : blogs[i].live /\ TitleMatches(blogs[i].title, query)})

\* The handler of /api/blogs/main: find().limit(limit).skip((page - 1) * limit).
BlogsMain(page, limit) ==
  Limit(Skip(FindBlogs, (PageParam(page) - 1) * LimitParam(limit)), LimitParam(limit))

\* The handler of /api/blogs/search.
BlogsSearch(query, page, limit) ==
  Limit(Skip(SearchBlogs(query), (PageParam(page) - 1) * LimitParam(limit)),
        LimitParam(limit))

Queries == {<<"a">>, <<"B">>, <<"a", "b">>}
Pages == 1..MaxPage \cup {Unset}
Limits == 0..MaxLimit \cup {Unset}

\* What the catch-all route answers: index.html, or 404 when there is no build.
PageStatuses == {200, 404}

\* GET /api/blogs/main?page=&limit=
GetBlogsMain(page, limit) ==
  /\ listing.pc # "find"
  /\ \/ /\ Dispatch("GET", <<"api", "blogs", "main">>) = "blogsMain"
        /\ listing' = [NoListing EXCEPT !.op = "main", !.pc = "done", !.page = page,
                                        !.limit = limit, !.status = 200, !.kind = "json",
                                        !.items = BlogsMain(page, limit),
                                        !.total = Len(FindBlogs)]
     \/ /\ Dispatch("GET", <<"api", "blogs", "main">>) = "index"
        /\ \E st \in PageStatuses :
             listing' = [NoListing EXCEPT !.op = "main", !.pc = "done", !.page = page,
                                          !.limit = limit, !.status = st, !.kind = "page"]
  /\ UNCHANGED <<now, files, blogs, events, nextId, ops, reqs, users, regResp, subs>>

\* GET /api/blogs/search?searchQuery=&page=&limit=
GetBlogsSearch(query, page, limit) ==
  /\ listing.pc # "find"
  /\ \/ /\ Dispatch("GET", <<"api", "blogs", "search">>) = "blogsSearch"
        /\ listing' = [NoListing EXCEPT !.op = "search", !.pc = "done", !.query = query,
                                        !.page = page, !.limit = limit, !.status = 200,
                                        !.kind = "json",
                                        !.items = BlogsSearch(query, page, limit)]
     \/ /\ Dispatch("GET", <<"api", "blogs", "search">>) = "index"
        /\ \E st \in PageStatuses :
             listing' = [NoListing EXCEPT !.op = "search", !.pc = "done", !.query = query,
                                          !.page = page, !.limit = limit, !.status = st,
                                          !.kind = "page"]
  /\ UNCHANGED <<now, files, blogs, events, nextId, ops, reqs, users, regResp, subs>>

\* The listings read the collection and change nothing: they are checked over
\* every Blog collection that POST, PUT and DELETE can leave behind (content
\* and images aside).
StoredBlogs ==
  {NoBlog} \cup {[live |-> TRUE, title |-> t, content |-> NoText, image |-> NoImage] :
                   t \in Titles}

InitBlogs ==
  /\ now = 0
  /\ files = {}
  /\ blogs \in [Ids -> StoredBlogs]
  /\ events = [i \in Ids |-> NoEvent]
  /\ nextId = MaxDocs
  /\ ops = 0
  /\ reqs = [s \in Slots |-> Idle]
  /\ users = <<>>
  /\ regResp = NoRegResp
  /\ subs = [s \in Slots |-> SubIdle]
  /\ listing = NoListing

NextBlogs ==
  \/ \E p \in Pages, l \in Limits : GetBlogsMain(p, l)
  \/ \E q \in Queries, p \in Pages, l \in Limits : GetBlogsSearch(q, p, l)

SpecBlogs == InitBlogs /\ [][NextBlogs]_vars

\* ------------------------------------------------------- the server
Init ==
  /\ now = 0
  /\ files = {}
  /\ blogs = [i \in Ids |-> NoBlog]
  /\ events = [i \in Ids |-> NoEvent]
  /\ nextId = 0
  /\ ops = 0
  /\ reqs = [s \in Slots |-> Idle]
  /\ users = <<>>
  /\ regResp = NoRegResp
  /\ subs = [s \in Slots |-> SubIdle]
  /\ listing = NoListing

\* The ids a client may name: those handed out, and one that never was.
Named == {i \in Ids : i <= nextId + 1}

\* A request is accepted.
Accept ==
  \/ \E s \in Slots, t \in Titles, c \in Contents, e \in Exts \cup {""} : PostBlogs(s, t, c, e)
  \/ \E s \in Slots, i \in Named : DeleteBlog(s, i)
  \/ \E s \in Slots, i \in Named, t \in Titles, c \in Contents, e \in Exts \cup {""} :
       PutBlog(s, i, t, c, e)
  \/ \E s \in Slots, d \in PostedDates \cup {NoDate, BadDate}, e \in Exts \cup {""} :
       PostEvents(s, d, e)
  \/ \E s \in Slots, i \in Named : DeleteEvent(s, i)

\* A request in progress resumes after an await, or time passes.
Resume ==
  \/ Tick
  \/ \E s \in Slots : PostBlogsSave(s)
  \/ \E s \in Slots : DeleteBlogSync(s)
  \/ \E s \in Slots : DeleteBlogWrite(s)
  \/ \E s \in Slots : PutBlogFind(s)
  \/ \E s \in Slots : PutBlogSync(s)
  \/ \E s \in Slots : PutBlogSave(s)
  \/ \E s \in Slots : PostEventsSave(s)
  \/ \E s \in Slots : DeleteEventSync(s)
  \/ \E s \in Slots : DeleteEventWrite(s)
  \/ \E s \in Slots : Respond(s)

Next == Accept \/ Resume

Spec == Init /\ [][Next]_vars

\* The same server with its clients taking turns: a request is sent only once
\* the one before it has been answered.
NextSeq == (Quiescent /\ Accept) \/ Resume

SpecSeq == Init /\ [][NextSeq]_vars

\* The registration endpoints, and the subscription endpoint, on their own:
\* they share no state with the rest.
SpecRegister == Init /\ [][NextRegister]_vars

SpecSubscribe == Init /\ [][NextSubscribe]_vars

\* ------------------------------------------------------------ properties
\* The image every stored Post or Event refers to.
Images == {blogs[i].image : i \in {j \in Ids : blogs[j].live}}
            \cup {events[i].image : i \in {j \in Ids : events[j].live}}

\* C1: whenever no request is in progress, every stored Post or Event whose
\* image field is non-empty refers to a file that exists in the uploads
\* directory.
ImageFilesExist == Quiescent => \A f \in Images : f # NoImage => f \in files

\* C2: when a PUT with a new image on a Post that refers to a file F_old has
\* succeeded, F_old is gone, no other file was deleted, and the Post refers to
\* the newly stored file, which exists.
PutReplacesImage ==
  \A s \in Slots :
    LET r == reqs[s]
        old == r.before.blog.image
    IN  ( /\ r.kind = "putBlog" /\ r.pc = "resp" /\ r.status = 200
          /\ r.hasFile /\ old # NoImage /\ old \in r.before.files )
        => /\ old \notin files
           /\ r.before.files \ files \subseteq {old}
           /\ blogs[r.id].image = r.file
           /\ r.file \in files

\* C3: once a POST with an image has been answered 201 the record refers to the
\* stored file, and once a DELETE has been answered 204 the record is gone and
\* the file it referred to is no longer on disk; for Posts and for Events.
DeleteRemovesRecordAndFile ==
  \A s \in Slots :
    LET r == reqs[s]
    IN  /\ (r.kind = "postBlog" /\ r.pc = "resp" /\ r.hasFile)
           => blogs[r.id].live /\ blogs[r.id].image = r.file /\ r.file \in files
        /\ (r.kind = "postEvent" /\ r.pc = "resp" /\ r.status = 201 /\ r.hasFile)
           => events[r.id].live /\ events[r.id].image = r.file /\ r.file \in files
        /\ (r.kind = "deleteBlog" /\ r.pc = "resp" /\ r.status = 204)
           => ~blogs[r.id].live /\ r.doc.image \notin files
        /\ (r.kind = "deleteEvent" /\ r.pc = "resp" /\ r.status = 204)
           => ~events[r.id].live /\ r.doc.image \notin files

\* A DELETE of a Post that had an image is about to answer 204.
DeletedWithImage ==
  \E s \in Slots :
    /\ reqs[s].kind = "deleteBlog" /\ reqs[s].pc = "resp" /\ reqs[s].status = 204
    /\ reqs[s].doc.image # NoImage

\* C4: when a PUT without an image has succeeded, the Post's image field and
\* the uploads directory are as they were, and title and content are the
\* supplied value where one was supplied and non-empty, the old value otherwise.
PutWithoutImageMerges ==
  \A s \in Slots :
    LET r == reqs[s]
        was == r.before.blog
    IN  (r.kind = "putBlog" /\ r.pc = "resp" /\ r.status = 200 /\ ~r.hasFile)
        => /\ blogs[r.id].image = was.image
           /\ files = r.before.files
           /\ blogs[r.id].title = (IF r.title # NoText THEN r.title ELSE was.title)
           /\ blogs[r.id].content = (IF r.content # NoText THEN r.content ELSE was.content)

\* A PUT without an image that changes the title and omits the content of a
\* Post that has content and an image is about to answer 200.
PutMergedFields ==
  \E s \in Slots :
    LET r == reqs[s]
    IN  /\ r.kind = "putBlog" /\ r.pc = "resp" /\ r.status = 200 /\ ~r.hasFile
        /\ r.title # NoText /\ r.title # r.before.blog.title
        /\ r.before.blog.title # NoText
        /\ r.content = NoText /\ r.before.blog.content # NoText
        /\ r.before.blog.image # NoImage

\* C10: no file is shared between records: two different stored records never
\* refer to the same file, so that no request on one of them can delete or
\* overwrite the file of the other.
NoSharedFile ==
  /\ \A i, j \in Ids : (i # j /\ blogs[i].live /\ blogs[j].live /\ blogs[i].image # NoImage)
                         => blogs[i].image # blogs[j].image
  /\ \A i, j \in Ids : (i # j /\ events[i].live /\ events[j].live /\ events[i].image # NoImage)
                         => events[i].image # events[j].image
  /\ \A i, j \in Ids : (blogs[i].live /\ events[j].live /\ blogs[i].image # NoImage)
                         => blogs[i].image # events[j].image

\* A parameter of a listing with its default filled in.
AskedPage == IF listing.page = Unset THEN 1 ELSE listing.page
AskedLimit == IF listing.limit = Unset THEN 28 ELSE listing.limit

\* The items at positions from..to of a list (those there are).
Positions(list, from, to) ==
  [k \in 1..(IF to > Len(list) THEN Len(list) - from + 1 ELSE to - from + 1)
     |-> list[from + k - 1]]

\* C9: /api/blogs/main and /api/blogs/search answer with the items at
\* positions (p-1)*n+1 .. p*n of the list of all Posts (of the Posts whose
\* title matches), in insertion order, p defaulting to 1 and n to 28.
BlogListingIsThePage ==
  (listing.op \in {"main", "search"} /\ listing.pc = "done")
  => /\ listing.kind = "json"
     /\ listing.items =
          Positions(IF listing.op = "main"
                    THEN Ascending({i \in Ids : blogs[i].live})
                    ELSE Ascending({i \in Ids : blogs[i].live
                                                 /\ TitleMatches(blogs[i].title, listing.query)}),
                    (AskedPage - 1) * AskedLimit + 1, AskedPage * AskedLimit)

\* C8: GET /api/events answers with exactly the stored Events whose date is at
\* or after the time of the request, each once, in ascending order of date.
EventsListingIsUpcomingAscending ==
  (listing.op = "events" /\ listing.pc = "done")
  => LET items == listing.items
         upcoming == {i \in Ids : events[i].live /\ events[i].date # NoDate
                                   /\ events[i].date >= listing.cutoff}
     IN  /\ {items[k] : k \in DOMAIN items} = upcoming
         /\ Len(items) = Cardinality(upcoming)
         /\ \A k, l \in DOMAIN items : k < l => events[items[k]].date <= events[items[l]].date

\* A listing of two Events, the later-stored one first and dated exactly at
\* the time of the request, that left out a past Event.
EventsListedOutOfStoredOrder ==
  /\ listing.op = "events" /\ listing.pc = "done"
  /\ Len(listing.items) = 2
  /\ listing.items[1] > listing.items[2]
  /\ events[listing.items[1]].date = listing.cutoff
  /\ \E i \in Ids : events[i].live /\ events[i].date # NoDate /\ events[i].date < listing.cutoff

\* C5: a subscription with an email answers 200 when the provider answers 2xx,
\* and with the provider's own status when that is 4xx or 5xx.
SubscribePassesProviderStatus ==
  \A s \in Slots :
    (subs[s].pc = "resp" /\ subs[s].email # "")
    => /\ (subs[s].outcome >= 200 /\ subs[s].outcome < 300) => subs[s].status = 200
       /\ (subs[s].outcome >= 400 /\ subs[s].outcome < 600)
            => subs[s].status = subs[s].outcome

\* C6: a subscription sends at most one request to the provider: none, and a
\* 400, when the email is absent or empty; exactly one otherwise, whatever the
\* provider does.
OneProviderRequest ==
  \A s \in Slots :
    /\ subs[s].calls <= 1
    /\ (subs[s].pc \in {"await", "resp"} /\ subs[s].email = "")
         => subs[s].calls = 0 /\ subs[s].status = 400 /\ subs[s].pc = "resp"
    /\ (subs[s].pc \in {"await", "resp"} /\ subs[s].email # "") => subs[s].calls = 1

\* A subscription the provider failed (an error status or no answer) is about
\* to be answered while another one, without an email, was refused.
ProviderFailedOnce ==
  \E s, t \in Slots :
    /\ subs[s].pc = "resp" /\ subs[s].email # "" /\ subs[s].calls = 1
    /\ subs[s].outcome \in {500, NoAnswer}
    /\ subs[t].pc = "resp" /\ subs[t].email = "" /\ subs[t].status = 400

\* C7: a PATCH on an existing Registration answers 200 with the record, leaves
\* its flag true and everything else as it was, however often it is applied;
\* and no request ever clears a flag.
CheckInIsIdempotent ==
  [][ /\ (regResp'.op = "patch" /\ regResp'.status = 200)
         => /\ regResp'.id \in DOMAIN users
            /\ users' = [users EXCEPT ![regResp'.id].check = TRUE]
            /\ regResp'.user = users'[regResp'.id]
            /\ regResp'.user.check
            /\ regResp'.already => users' = users
      /\ \A i \in DOMAIN users : users[i].check => (i \in DOMAIN users' /\ users'[i].check)
    ]_vars

\* A PATCH has just been answered 200 for a Registration that was already
\* checked in, and another Registration is not checked in.
CheckedInAgain ==
  /\ regResp.op = "patch" /\ regResp.status = 200 /\ regResp.already
  /\ \E i \in DOMAIN users : ~users[i].check

====
